---- MODULE Spec2Model ----
(***************************************************************************)
(* A model of the AI voice cashier server.                                 *)
(*                                                                         *)
(* Two snapshots of the server are in the repository: src/server.js (the   *)
(* conversation endpoint, the single-turn endpoint, a one hour menu cache  *)
(* with an empty fallback) and src/unnamed/part_000 (the single-turn       *)
(* endpoint, the menu endpoint, a five minute menu cache with a hardcoded  *)
(* fallback).  The variable build says which of the two is running.        *)
(*                                                                         *)
(* Every action is one run of JavaScript between two suspension points     *)
(* (await), or one timer callback: Node runs such a piece to completion    *)
(* before any other request handler or timer starts.                       *)
(***************************************************************************)
EXTENDS Integers, Sequences, FiniteSets, TLC

\* ------------------------------------------------------------------ bounds

\* The clock stops here (now is counted in sweep intervals).
MaxTime == 8
\* The longest dialogue history of one session object.
MaxHist == 4
\* The most rows the ledger receives.
MaxLedger == 2

\* ------------------------------------------------------- program constants

\* One unit of the model's clock: the sweep interval, in milliseconds.
SWEEP_INTERVAL == 5 * 60 * 1000
\* The idle threshold of the sweep, in clock units.
TIMEOUT == (30 * 60 * 1000) \div SWEEP_INTERVAL
\* The menu cache's time to live, in clock units, per build.
MENU_CACHE_DURATION(b) ==
  IF b = "server" THEN (60 * 60 * 1000) \div SWEEP_INTERVAL
                  ELSE (5 * 60 * 1000) \div SWEEP_INTERVAL

Builds == {"server", "part_000"}

\* --------------------------------------------------------- JavaScript values

\* null / undefined, as a value comparable with the objects below.
Null == [null |-> "null"]
\* undefined, where an array is expected.
Undefined == << Null >>

\* String.prototype.toLowerCase on the strings the model uses.
ToLowerCase(s) ==
  CASE s = "Latte" -> "latte"
    [] s = "Large" -> "large"
    [] s = "Small" -> "small"
    [] s = "Croissant" -> "croissant"
    [] s = " Mocha " -> " mocha "
    [] OTHER -> s

\* String.prototype.trim on the strings the model uses.
Trim(s) ==
  CASE s = " mocha " -> "mocha"
    [] s = " Mocha " -> "Mocha"
    [] s = " " -> ""
    [] OTHER -> s

\* price.replace('$', '') then parseFloat: the number in cents, or NaN.
NaN == [nan |-> TRUE]
Num(n) == [nan |-> FALSE, val |-> n]
ParseFloat(s) ==
  CASE s = "$4.50" -> Num(450)
    [] s = "$3.50" -> Num(350)
    [] s = "$4.00" -> Num(400)
    [] s = "5.00" -> Num(500)
    [] s = "0" -> Num(0)
    [] s = "$0.00" -> Num(0)
    [] OTHER -> NaN

\* ---------------------------------------------------------------- the menu

\* A menu entry: typeof entry === 'number', or an object of sizes.
Flat(p) == [kind |-> "number", price |-> p, sizes |-> <<>>]
Sized(f) == [kind |-> "object", price |-> 0, sizes |-> f]

\* The empty menu object {}.
EmptyMenu == <<>>

\* f with f[k] set to v (k added to the domain when new).
Put(f, k, v) == [x \in DOMAIN f \cup {k} |-> IF x = k THEN v ELSE f[x]]

Row(item, size, price) == [item |-> item, size |-> size, price |-> price]
Header == Row("Item", "Size", "Price")

\* The sheets the menu source may hold: response.data.values.
SheetA == << Header, Row("Latte", "Large", "$4.50"), Row("Latte", "Small", "$3.50"),
             Row("Croissant", "", "$4.00") >>
SheetB == << Header, Row("Latte", "Large", "5.00"), Row("Croissant", " ", "$4.00") >>
SheetHeaderOnly == << Header >>
SheetNoValues == << >>
SheetInvalid == << Header, Row("", "Large", "$4.50"), Row("Sweetness Levels", "", "0"),
                   Row("Ice Levels", "", "n/a"), Row("Latte", "Large", "") >>
SheetMixed == << Header, Row("Latte", "", "$4.00"), Row("Latte", "Large", "$4.50") >>
Sheets == {SheetA, SheetB, SheetHeaderOnly, SheetNoValues, SheetInvalid, SheetMixed}

\* What a fetch of the menu source ends in: a sheet, or a rejection.
FetchFailed == << Row("fetch", "failed", "") >>
FetchOutcomes == Sheets \cup {FetchFailed}

\* The loop of getMenu from row i on; acc is the menu so far, or Null once
\* a row has thrown.  Assigning a size to an entry that is a number throws
\* (the file is an ES module, hence strict).
RECURSIVE MenuLoop(_, _, _)
MenuLoop(rows, i, acc) ==
  IF acc = Null \/ i > Len(rows) THEN acc
  ELSE LET r == rows[i]
           itemLower == Trim(ToLowerCase(r.item))
           priceNum == ParseFloat(r.price)
           sizeLower == Trim(ToLowerCase(r.size))
       IN IF r.item = "" \/ r.price = "" THEN MenuLoop(rows, i + 1, acc)
          ELSE IF priceNum = NaN \/ priceNum = Num(0) THEN MenuLoop(rows, i + 1, acc)
          ELSE IF r.size = "" \/ Trim(r.size) = ""
            THEN MenuLoop(rows, i + 1, Put(acc, itemLower, Flat(priceNum.val)))
          ELSE IF itemLower \notin DOMAIN acc
            THEN MenuLoop(rows, i + 1,
                          Put(acc, itemLower, Sized(Put(<<>>, sizeLower, priceNum.val))))
          ELSE IF acc[itemLower].kind = "number" THEN Null
          ELSE MenuLoop(rows, i + 1,
                        Put(acc, itemLower,
                            Sized(Put(acc[itemLower].sizes, sizeLower, priceNum.val))))

\* The hardcoded menu of part_000's catch block.
FallbackMenuPart000 ==
  Put(Put(EmptyMenu,
      "coffee", Sized(Put(Put(Put(<<>>, "small", 250), "medium", 300), "large", 350))),
      "latte", Sized(Put(Put(Put(<<>>, "small", 350), "medium", 400), "large", 450)))

\* What getMenu's catch block returns.
CatchMenu(b) == IF b = "server" THEN EmptyMenu ELSE FallbackMenuPart000

\* getMenu, given what the fetch ended in.  Rows start after the header.
GetMenu(b, outcome) ==
  IF outcome = FetchFailed THEN CatchMenu(b)
  ELSE LET m == MenuLoop(outcome, 2, EmptyMenu)
       IN IF m = Null THEN CatchMenu(b) ELSE m

\* ------------------------------------------------------------ the state

Turns == {"t1", "t2"}
SessionIds == {"s1"}
\* req.body.sessionId: a session id, or "" when the field is missing.
SessionIdInputs == SessionIds \cup {""}
Modes == {"text", "voice"}
\* req.body.userMessage; one utterance stands for all (the code only stores it).
UserMessage == "hi"

\* The identities of the session objects: one per session registered, one per
\* turn that may still hold an object the store has dropped, one per ledger
\* row (a row remembers the object it was serialized from, see LedgerRow).
ObjIds == 1 .. (Cardinality(SessionIds) + Cardinality(Turns) + MaxLedger)
NoObj == 0

VARIABLES
  build,               \* which snapshot of the server runs
  now,                 \* Date.now(), in sweep intervals
  sweepDue,            \* the interval timer has not fired since now changed
  cachedMenu,          \* let cachedMenu
  lastMenuFetch,       \* let lastMenuFetch
  conversationStates,  \* the Map: session id -> session object (NoObj: no entry)
  heap,                \* the session objects
  turn,                \* the conversation-turn requests in flight
  po,                  \* the process-order request in flight
  mn,                  \* the menu request in flight (part_000)
  res,                 \* the response the last step sent, if it sent one
  ledger               \* the rows appended to the orders sheet

vars == << build, now, sweepDue, cachedMenu, lastMenuFetch, conversationStates,
           heap, turn, po, mn, res, ledger >>

Slots == Turns \cup {"po", "mn"}

\* A session object as getConversationState creates it.
NewState(n) ==
  [orderItems |-> <<>>, currentItem |-> Null, conversationHistory |-> <<>>,
   lastActivity |-> n]
\* The slot of an object nothing refers to.
NoState == NewState(-1)

NoReply == [reply |-> "", orderComplete |-> FALSE, currentItem |-> Null, action |-> ""]
NoRow == [items |-> <<>>, total |-> Null, status |-> "", state |-> NoObj]

\* What the claims compare of a session object.
View(st) ==
  [orderItems |-> st.orderItems, currentItem |-> st.currentItem,
   conversationHistory |-> st.conversationHistory]

\* The locals of a conversation turn; a local that is dead is at its default.
\* before is no local of the code: it records the session as the turn found
\* it (an empty one when there was none), for the properties that compare
\* the session after a turn with the session before it.
IdleTurn ==
  [pc |-> "idle", sessionId |-> "", state |-> NoObj, now |-> 0, menu |-> Null,
   mode |-> "text", aiResponse |-> NoReply, audioBuffer |-> Null,
   total |-> 0, row |-> NoRow, before |-> View(NoState)]

NoOrderData == [items |-> Undefined, total |-> Null, response |-> ""]
IdlePO == [pc |-> "idle", now |-> 0, menu |-> Null, orderData |-> NoOrderData]
IdleMN == [pc |-> "idle", now |-> 0]

\* A response and the request slot it answers; slot "" and status 0: none.
NoRes ==
  [slot |-> "", status |-> 0, reply |-> "", orderComplete |-> FALSE, total |-> Null,
   items |-> Undefined, currentItem |-> Null, audio |-> Null, menu |-> Null]
ErrorRes(code) == [NoRes EXCEPT !.status = code]
\* res.json(r) on request slot s.
Respond(s, r) == [r EXCEPT !.slot = s]

Init ==
  /\ build \in Builds
  /\ now = 0
  /\ sweepDue = FALSE
  /\ cachedMenu = Null
  /\ lastMenuFetch = 0
  /\ conversationStates = [s \in SessionIds |-> NoObj]
  /\ heap = [o \in ObjIds |-> NoState]
  /\ turn = [t \in Turns |-> IdleTurn]
  /\ po = IdlePO
  /\ mn = IdleMN
  /\ res = NoRes
  /\ ledger = <<>>

\* ------------------------------------------------------------ the heap

\* The objects a store and a set of turns still refer to.
Referenced(store, tn) ==
  {store[s] : s \in SessionIds} \cup {tn[t].state : t \in Turns}
\* The identities in use: referenced, or remembered by a ledger row.
Reserved(store, tn, lg) ==
  Referenced(store, tn) \cup {lg[i].state : i \in 1 .. Len(lg)}
\* The identity of the next object created.
FreshObj == CHOOSE o \in ObjIds :
  /\ o \notin Reserved(conversationStates, turn, ledger)
  /\ \A p \in ObjIds : p < o => p \in Reserved(conversationStates, turn, ledger)
\* h with the objects nothing refers to any more dropped.
Collect(h, store, tn) ==
  [o \in ObjIds |-> IF o \in Referenced(store, tn) THEN h[o] ELSE NoState]

\* ------------------------------------------------------- getCachedMenu

\* The test of getCachedMenu at time n.
NeedsFetch(n) ==
  cachedMenu = Null \/ (n - lastMenuFetch) > MENU_CACHE_DURATION(build)

\* ------------------------------------------------- getConversationState

\* The store and the heap after getConversationState(sid), and the object.
StateObj(sid) ==
  IF conversationStates[sid] = NoObj THEN FreshObj ELSE conversationStates[sid]
StoreAfterGet(sid) == [conversationStates EXCEPT ![sid] = StateObj(sid)]
HeapAfterGet(sid) ==
  IF conversationStates[sid] = NoObj
    THEN [heap EXCEPT ![StateObj(sid)] = NewState(now)]
    ELSE [heap EXCEPT ![StateObj(sid)].lastActivity = now]

\* state.conversationHistory.push(entry) on object o of heap h.
PushHistory(h, o, role, content) ==
  [h EXCEPT ![o].conversationHistory =
     Append(@, [role |-> role, content |-> content])]

\* ------------------------------------------------------------ the oracle

\* The item objects the oracle may put in currentItem.
ItemLatteLarge == [item |-> "Latte", size |-> "Large"]
ItemScone == [item |-> "scone", temperature |-> "hot"]
ItemNoName == [size |-> "large"]
ReplyItems == {Null, ItemLatteLarge, ItemScone, ItemNoName}
ReplyActions == {"ask_size", "add_item"}

\* The objects the conversation oracle may answer with (a missing
\* orderComplete is FALSE, a missing currentItem is Null).
\* The reply text announces the total when the oracle signals completion, as
\* in the prompt's examples.
ReplyText(complete) == IF complete THEN "Your total is" ELSE "Anything else?"
Replies ==
  {[reply |-> ReplyText(c), orderComplete |-> c, currentItem |-> ci, action |-> a] :
     c \in BOOLEAN, ci \in ReplyItems, a \in ReplyActions}

\* The raw text of an oracle answer, as a sequence of chunks: text without
\* braces, text in braces that is no JSON, and a well-formed JSON object.
Noise == [kind |-> "noise", value |-> Null]
Braces == [kind |-> "braces", value |-> Null]
Json(v) == [kind |-> "json", value |-> v]
Clean(v) == << Json(v) >>
Noisy(v) == << Noise, Json(v), Noise >>

\* JSON.parse(text): the object, or Null when it throws.
JSONParse(text) ==
  IF Len(text) = 1 /\ text[1].kind = "json" THEN text[1].value ELSE Null

\* text.match(/\{[\s\S]*\}/): from the first "{" to the last "}"; the empty
\* text when nothing matches.
MatchBraces(text) ==
  LET idx == {i \in 1 .. Len(text) : text[i].kind # "noise"}
  IN IF idx = {} THEN <<>>
     ELSE SubSeq(text, CHOOSE i \in idx : \A j \in idx : i <= j,
                       CHOOSE i \in idx : \A j \in idx : j <= i)

\* The conversation oracle's answers.
ConvRaw ==
  {Clean(r) : r \in Replies}
    \cup {Noisy(r) : r \in {x \in Replies : x.currentItem = ItemLatteLarge}}
    \cup {<< Noise >>}

\* ------------------------------------------------- the conversation turn

\* The menu and its size objects are plain object literals (lines 58, 73),
\* so obj[key] also finds what the prototype chain holds: under
\* "constructor" the function Object, whose property name is the string
\* "Object".  NotANumber stands for such a value where a price is expected
\* (a function, a string).
NotANumber == -1
Inherited == {"constructor"}
ObjectFunction == [kind |-> "function", price |-> 0, sizes |-> [name |-> NotANumber]]
\* obj[key] is truthy, for obj the menu or a size object (or the function).
Has(obj, key) == key \in DOMAIN obj \/ key \in Inherited
\* menu[key], when it is truthy.
Entry(m, key) == IF key \in DOMAIN m THEN m[key] ELSE ObjectFunction
\* menu[itemName][size], when it is truthy.
SizePrice(sizes, key) == IF key \in DOMAIN sizes THEN sizes[key] ELSE NotANumber

\* Lines 202-212: the price of the pending item ci on menu m.
Price(m, ci) ==
  LET itemName == ToLowerCase(ci.item)
      size == IF "size" \in DOMAIN ci THEN ToLowerCase(ci.size) ELSE ""
  IN IF ~Has(m, itemName) THEN 0
     ELSE IF Entry(m, itemName).kind = "number" THEN Entry(m, itemName).price
     ELSE IF size # "" /\ Has(Entry(m, itemName).sizes, size)
       THEN SizePrice(Entry(m, itemName).sizes, size)
     ELSE 0

\* state.currentItem.item.toLowerCase() throws when there is no item name.
PriceThrows(ci) == "item" \notin DOMAIN ci

\* { ...state.currentItem, price }
LineItem(ci, price) == Put(ci, "price", price)

\* state.orderItems.reduce((sum, item) => sum + (item.price || 0), 0)
RECURSIVE Total(_)
Total(items) ==
  IF items = <<>> THEN 0
  ELSE Total(SubSeq(items, 1, Len(items) - 1)) + items[Len(items)].price

\* An update that merges: the attributes the reply does not repeat survive.
PendingMerged(h, o, ai) ==
  IF ai.currentItem = Null THEN h[o].currentItem
  ELSE IF h[o].currentItem = Null THEN ai.currentItem
  ELSE [a \in DOMAIN ai.currentItem \cup DOMAIN h[o].currentItem |->
          IF a \in DOMAIN ai.currentItem THEN ai.currentItem[a]
          ELSE h[o].currentItem[a]]

\* Lines 196-198: the pending item of object o after reply ai.
PendingAfter(h, o, ai) ==
  IF ai.currentItem # Null THEN ai.currentItem ELSE h[o].currentItem

\* Whether lines 200-216 add a line item.
AddsItem(h, o, ai) == ai.action = "add_item" /\ PendingAfter(h, o, ai) # Null

\* A reply applied with unshift instead of push: the new line item comes
\* first and the earlier ones move.
ApplyReplyPutsFirst(h, o, m, ai) ==
  IF AddsItem(h, o, ai)
    THEN [h EXCEPT ![o].orderItems =
                     << LineItem(PendingAfter(h, o, ai),
                                 Price(m, PendingAfter(h, o, ai))) >> \o @,
                   ![o].currentItem = Null]
    ELSE [h EXCEPT ![o].currentItem = PendingAfter(h, o, ai)]

\* A write-back of a list built from the turn's own line item alone: the
\* last writer wins and the line items of other turns are dropped.
ApplyReplyOverwrites(h, o, m, ai) ==
  IF AddsItem(h, o, ai)
    THEN [h EXCEPT ![o].orderItems =
                     << LineItem(PendingAfter(h, o, ai),
                                 Price(m, PendingAfter(h, o, ai))) >>,
                   ![o].currentItem = Null]
    ELSE [h EXCEPT ![o].currentItem = PendingAfter(h, o, ai)]

\* Lines 196-216: the heap after the reply is applied to object o, when
\* nothing throws.
ApplyReply(h, o, m, ai) ==
  IF AddsItem(h, o, ai)
    THEN [h EXCEPT ![o].orderItems =
                     Append(@, LineItem(PendingAfter(h, o, ai),
                                        Price(m, PendingAfter(h, o, ai)))),
                   ![o].currentItem = Null]
    ELSE [h EXCEPT ![o].currentItem = PendingAfter(h, o, ai)]

\* Lines 196-202: the heap when the price lookup throws: the pending item
\* has been replaced already.
ApplyThrown(h, o, ai) == [h EXCEPT ![o].currentItem = PendingAfter(h, o, ai)]

\* The row of lines 256-263.  state is not a column of the sheet: it names
\* the session object whose orderItems were serialized into the row.
LedgerRow(items, total, o) ==
  [items |-> items, total |-> total, status |-> "pending", state |-> o]

\* The requests in flight, each of which may still append one ledger row.
InFlight ==
  Cardinality({t \in Turns : turn[t].pc # "idle"}) + (IF po.pc # "idle" THEN 1 ELSE 0)
\* A new request is taken only while the ledger bound leaves room for its row.
LedgerRoom == Len(ledger) + InFlight < MaxLedger

\* The history entries the turns in flight on object o have yet to push.
RECURSIVE PendingPushes(_, _)
PendingPushes(o, ts) ==
  IF ts = {} THEN 0
  ELSE LET t == CHOOSE x \in ts : TRUE
       IN PendingPushes(o, ts \ {t})
            + (IF turn[t].state # o THEN 0
               ELSE IF turn[t].pc = "menu" THEN 2
               ELSE IF turn[t].pc \in {"oracle", "tts"} THEN 1
               ELSE 0)
\* A new turn is taken only while the history bound leaves room for it.
HistRoom(sid) ==
  IF conversationStates[sid] = NoObj THEN TRUE
  ELSE Len(heap[conversationStates[sid]].conversationHistory)
         + PendingPushes(conversationStates[sid], Turns) + 2 <= MaxHist

\* Lines 142-191: the user message is pushed and the oracle is called.
AskOracle(t, tn, h) ==
  /\ heap' = PushHistory(h, tn.state, "user", UserMessage)
  /\ turn' = [turn EXCEPT ![t] = [tn EXCEPT !.pc = "oracle"]]

\* A handler without the test of lines 134-136: a request without an id is
\* served as a request of some session.
TurnStartWithoutCheck(t, sid, mode) ==
  LET id == IF sid = "" THEN CHOOSE s \in SessionIds : TRUE ELSE sid
  IN /\ build = "server"
     /\ turn[t].pc = "idle"
     /\ LedgerRoom
     /\ HistRoom(id)
     /\ conversationStates' = StoreAfterGet(id)
     /\ res' = NoRes
     /\ LET tn == [IdleTurn EXCEPT !.sessionId = id, !.state = StateObj(id),
                                   !.mode = mode,
                                   !.before = View(heap[StateObj(id)])]
        IN IF NeedsFetch(now)
             THEN /\ turn' = [turn EXCEPT ![t] =
                                [tn EXCEPT !.pc = "menu", !.now = now]]
                  /\ heap' = HeapAfterGet(id)
             ELSE AskOracle(t, [tn EXCEPT !.menu = cachedMenu], HeapAfterGet(id))
     /\ UNCHANGED << build, now, sweepDue, cachedMenu, lastMenuFetch, po, mn,
                     ledger >>

\* Lines 130-143, up to the first await that suspends: the request arrives.
TurnStart(t, sid, mode) ==
  /\ build = "server"
  /\ turn[t].pc = "idle"
  /\ LedgerRoom
  /\ IF sid = ""
       THEN /\ res' = Respond(t, ErrorRes(400))
            /\ UNCHANGED << build, now, sweepDue, cachedMenu, lastMenuFetch,
                            conversationStates, heap, turn, po, mn, ledger >>
       ELSE /\ HistRoom(sid)
            /\ conversationStates' = StoreAfterGet(sid)
            /\ res' = NoRes
            /\ LET tn == [IdleTurn EXCEPT !.sessionId = sid, !.state = StateObj(sid),
                                          !.mode = mode,
                                          !.before = View(heap[StateObj(sid)])]
               IN IF NeedsFetch(now)
                    THEN /\ turn' = [turn EXCEPT ![t] =
                                       [tn EXCEPT !.pc = "menu", !.now = now]]
                         /\ heap' = HeapAfterGet(sid)
                    ELSE AskOracle(t, [tn EXCEPT !.menu = cachedMenu], HeapAfterGet(sid))
            /\ UNCHANGED << build, now, sweepDue, cachedMenu, lastMenuFetch, po, mn,
                            ledger >>

\* Lines 93-94 and 139-191: getMenu returns to the turn's getCachedMenu.
TurnMenuReturn(t, outcome) ==
  /\ turn[t].pc = "menu"
  /\ cachedMenu' = GetMenu(build, outcome)
  /\ lastMenuFetch' = turn[t].now
  /\ AskOracle(t, [turn[t] EXCEPT !.menu = cachedMenu', !.now = 0], heap)
  /\ res' = NoRes
  /\ UNCHANGED << build, now, sweepDue, conversationStates, po, mn, ledger >>

\* Lines 288-291: the catch block answers 500.
TurnFails(t, h) ==
  /\ turn' = [turn EXCEPT ![t] = IdleTurn]
  /\ heap' = Collect(h, conversationStates, turn')
  /\ res' = Respond(t, ErrorRes(500))

\* Lines 280-286: the normal reply.
ReplyRes(h, o, ai, audio) ==
  [NoRes EXCEPT !.status = 200, !.reply = ai.reply, !.currentItem = h[o].currentItem,
                !.audio = audio]

\* A finalization that forgets to look at the list.
FinalizesWithoutItems(ai, items) == ai.orderComplete

\* Line 247: the order is saved.
Finalizes(ai, items) == ai.orderComplete /\ Len(items) > 0

\* Lines 243-286: from the push of the assistant's reply to the response,
\* or to the await of the ledger append.
Finish(t, h, ai, audio) ==
  LET o == turn[t].state
      h2 == PushHistory(h, o, "assistant", ai.reply)
      items == h2[o].orderItems
  IN IF Finalizes(ai, items)
       THEN /\ turn' = [turn EXCEPT ![t] =
                          [@ EXCEPT !.pc = "ledger", !.menu = Null, !.aiResponse = ai,
                                    !.audioBuffer = audio, !.total = Total(items),
                                    !.row = LedgerRow(items, Num(Total(items)), o)]]
            /\ heap' = h2
            /\ res' = NoRes
       ELSE /\ turn' = [turn EXCEPT ![t] = IdleTurn]
            /\ heap' = Collect(h2, conversationStates, turn')
            /\ res' = Respond(t, ReplyRes(h2, o, ai, audio))

\* Line 183: the oracle call rejects.
OracleFail(t) ==
  /\ turn[t].pc = "oracle"
  /\ TurnFails(t, heap)
  /\ UNCHANGED << build, now, sweepDue, cachedMenu, lastMenuFetch,
                  conversationStates, po, mn, ledger >>

\* Lines 193-216 (and on to 286 in text mode): the oracle answers raw.
OracleReturn(t, raw) ==
  /\ turn[t].pc = "oracle"
  /\ LET ai == JSONParse(raw)
         o == turn[t].state
     IN IF ai = Null THEN TurnFails(t, heap)
        ELSE IF AddsItem(heap, o, ai) /\ PriceThrows(PendingAfter(heap, o, ai))
          THEN TurnFails(t, ApplyThrown(heap, o, ai))
        ELSE IF turn[t].mode = "voice"
          THEN /\ heap' = ApplyReply(heap, o, turn[t].menu, ai)
               /\ turn' = [turn EXCEPT ![t] =
                             [@ EXCEPT !.pc = "tts", !.menu = Null, !.aiResponse = ai]]
               /\ res' = NoRes
        ELSE Finish(t, ApplyReply(heap, o, turn[t].menu, ai), ai, Null)
  /\ UNCHANGED << build, now, sweepDue, cachedMenu, lastMenuFetch,
                  conversationStates, po, mn, ledger >>

\* A speech synthesis whose failure is not caught: it reaches the catch
\* block of the handler and the turn answers 500.
TTSFailureAborts(t, ok) ==
  /\ turn[t].pc = "tts"
  /\ IF ok THEN Finish(t, heap, turn[t].aiResponse, [audio |-> "base64"])
          ELSE TurnFails(t, heap)
  /\ UNCHANGED << build, now, sweepDue, cachedMenu, lastMenuFetch,
                  conversationStates, po, mn, ledger >>

\* Lines 220-241 (and on to 286): speech synthesis ends, well or not.
TTSReturn(t, ok) ==
  /\ turn[t].pc = "tts"
  /\ Finish(t, heap, turn[t].aiResponse, IF ok THEN [audio |-> "base64"] ELSE Null)
  /\ UNCHANGED << build, now, sweepDue, cachedMenu, lastMenuFetch,
                  conversationStates, po, mn, ledger >>

\* Lines 270-277: the response of a finalized order.
FinalRes(tn, h) ==
  [NoRes EXCEPT !.status = 200, !.reply = tn.aiResponse.reply, !.orderComplete = TRUE,
                !.total = Num(tn.total),
                !.items = h[tn.state].orderItems, !.audio = tn.audioBuffer]

\* Lines 251-277: the ledger append resolves.
LedgerOk(t) ==
  /\ turn[t].pc = "ledger"
  /\ ledger' = Append(ledger, turn[t].row)
  /\ conversationStates' = [conversationStates EXCEPT ![turn[t].sessionId] = NoObj]
  /\ res' = Respond(t, FinalRes(turn[t], heap))
  /\ turn' = [turn EXCEPT ![t] = IdleTurn]
  /\ heap' = Collect(heap, conversationStates', turn')
  /\ UNCHANGED << build, now, sweepDue, cachedMenu, lastMenuFetch, po, mn >>

\* A catch block that also clears the session, as the success path does.
LedgerFailClears(t) ==
  /\ turn[t].pc = "ledger"
  /\ turn' = [turn EXCEPT ![t] = IdleTurn]
  /\ conversationStates' = [conversationStates EXCEPT ![turn[t].sessionId] = NoObj]
  /\ heap' = Collect(heap, conversationStates', turn')
  /\ res' = Respond(t, ErrorRes(500))
  /\ UNCHANGED << build, now, sweepDue, cachedMenu, lastMenuFetch, po, mn, ledger >>

\* Lines 251 and 288-291: the ledger append rejects.
LedgerFail(t) ==
  /\ turn[t].pc = "ledger"
  /\ TurnFails(t, heap)
  /\ UNCHANGED << build, now, sweepDue, cachedMenu, lastMenuFetch,
                  conversationStates, po, mn, ledger >>

\* ------------------------------------------------------------- the sweep

\* A sweep whose threshold is one interval late.
ExpiredLate(n) ==
  {s \in SessionIds : /\ conversationStates[s] # NoObj
                      /\ n - heap[conversationStates[s]].lastActivity > TIMEOUT + 1}

\* A sweep whose comparison is not strict.
ExpiredAtThreshold(n) ==
  {s \in SessionIds : /\ conversationStates[s] # NoObj
                      /\ n - heap[conversationStates[s]].lastActivity >= TIMEOUT}

\* Line 123: the sessions a sweep at time n deletes.
Expired(n) ==
  {s \in SessionIds : /\ conversationStates[s] # NoObj
                      /\ n - heap[conversationStates[s]].lastActivity > TIMEOUT}

\* Lines 119-127: the interval timer fires.
Sweep ==
  /\ build = "server"
  /\ sweepDue
  /\ sweepDue' = FALSE
  /\ conversationStates' =
       [s \in SessionIds |-> IF s \in Expired(now) THEN NoObj ELSE conversationStates[s]]
  /\ heap' = Collect(heap, conversationStates', turn)
  /\ res' = NoRes
  /\ UNCHANGED << build, now, cachedMenu, lastMenuFetch, turn, po, mn, ledger >>

\* One sweep interval passes.  The timer fires once in every interval, at
\* some moment of it: requests are served before and after.
Tick ==
  /\ now < MaxTime
  /\ ~sweepDue
  /\ now' = now + 1
  /\ sweepDue' = (build = "server")
  /\ UNCHANGED << build, cachedMenu, lastMenuFetch, conversationStates, heap, turn,
                  po, mn, ledger >>
  /\ res' = NoRes

\* ------------------------------------------------------ process-order

\* The objects the single-turn oracle may answer with (Undefined, Null: the
\* field is missing).
OrderItemsA == << [item |-> "latte", size |-> "large", price |-> 450] >>
OrderDatas ==
  [items : {Undefined, <<>>, OrderItemsA}, total : {Null, Num(0), Num(450)},
   response : {"ok"}]

\* The single-turn oracle's answers.
PORaw ==
  {Clean(d) : d \in OrderDatas} \cup {Noisy(d) : d \in OrderDatas}
    \cup {<< Noise >>, << Json(NoOrderData), Noise, Braces >>}

\* Lines 334-345 (part_000: 164-175): parse, then salvage; Null when the
\* handler throws.
ParseOrSalvage(text) ==
  IF JSONParse(text) # Null THEN JSONParse(text)
  ELSE IF MatchBraces(text) # <<>> THEN JSONParse(MatchBraces(text))
  ELSE Null

\* Line 347 (part_000: 178): the order is not saved.
NotSaved(d) ==
  \/ d.items = Undefined
  \/ Len(d.items) = 0
  \/ d.total = Num(0)

\* After getCachedMenu: part_000 awaits getWaitTime, server.js the oracle.
POAfterMenu(p) ==
  po' = [p EXCEPT !.pc = IF build = "server" THEN "oracle" ELSE "waitTime", !.now = 0]

\* Lines 295-301 (part_000: 117-122): the request arrives.
POStart ==
  /\ po.pc = "idle"
  /\ LedgerRoom
  /\ res' = NoRes
  /\ IF NeedsFetch(now)
       THEN po' = [IdlePO EXCEPT !.pc = "menu", !.now = now]
       ELSE POAfterMenu([IdlePO EXCEPT !.menu = cachedMenu])
  /\ UNCHANGED << build, now, sweepDue, cachedMenu, lastMenuFetch,
                  conversationStates, heap, turn, mn, ledger >>

\* Lines 93-94: getMenu returns to the request's getCachedMenu.
POMenuReturn(outcome) ==
  /\ po.pc = "menu"
  /\ cachedMenu' = GetMenu(build, outcome)
  /\ lastMenuFetch' = po.now
  /\ POAfterMenu([po EXCEPT !.menu = cachedMenu'])
  /\ res' = NoRes
  /\ UNCHANGED << build, now, sweepDue, conversationStates, heap, turn, mn, ledger >>

\* part_000 lines 102-124: getWaitTime returns (it catches its own errors).
POWaitTimeReturn ==
  /\ po.pc = "waitTime"
  /\ po' = [po EXCEPT !.pc = "oracle"]
  /\ UNCHANGED << build, now, sweepDue, cachedMenu, lastMenuFetch,
                  conversationStates, heap, turn, mn, ledger >>
  /\ res' = NoRes

\* Lines 373-376: the catch block answers 500.
POFails ==
  /\ po' = IdlePO
  /\ res' = Respond("po", ErrorRes(500))

\* Line 301: the oracle call rejects.
POOracleFail ==
  /\ po.pc = "oracle"
  /\ POFails
  /\ UNCHANGED << build, now, sweepDue, cachedMenu, lastMenuFetch,
                  conversationStates, heap, turn, mn, ledger >>

\* Lines 334-356: the oracle answers raw.
POOracleReturn(raw) ==
  /\ po.pc = "oracle"
  /\ LET d == ParseOrSalvage(raw)
     IN IF d = Null THEN POFails
        ELSE IF NotSaved(d)
          THEN /\ po' = IdlePO
               /\ res' = Respond("po", [NoRes EXCEPT !.status = 200, !.items = <<>>,
                                                      !.total = Num(0)])
        ELSE /\ po' = [po EXCEPT !.pc = "ledger", !.menu = Null, !.orderData = d]
             /\ res' = NoRes
  /\ UNCHANGED << build, now, sweepDue, cachedMenu, lastMenuFetch,
                  conversationStates, heap, turn, mn, ledger >>

\* Lines 356-372: the ledger append resolves.
POLedgerOk ==
  /\ po.pc = "ledger"
  /\ ledger' = Append(ledger, LedgerRow(po.orderData.items, po.orderData.total, NoObj))
  /\ res' = Respond("po", [NoRes EXCEPT !.status = 200, !.items = po.orderData.items,
                                         !.total = po.orderData.total])
  /\ po' = IdlePO
  /\ UNCHANGED << build, now, sweepDue, cachedMenu, lastMenuFetch,
                  conversationStates, heap, turn, mn >>

\* Lines 356 and 373-376: the ledger append rejects.
POLedgerFail ==
  /\ po.pc = "ledger"
  /\ POFails
  /\ UNCHANGED << build, now, sweepDue, cachedMenu, lastMenuFetch,
                  conversationStates, heap, turn, mn, ledger >>

\* ------------------------------------------------------ GET /api/menu

\* part_000 lines 254-257: the request arrives.
MNStart ==
  /\ build = "part_000"
  /\ mn.pc = "idle"
  /\ IF NeedsFetch(now)
       THEN /\ mn' = [pc |-> "menu", now |-> now]
            /\ res' = NoRes
       ELSE /\ mn' = IdleMN
            /\ res' = Respond("mn", [NoRes EXCEPT !.status = 200, !.menu = cachedMenu])
  /\ UNCHANGED << build, now, sweepDue, cachedMenu, lastMenuFetch,
                  conversationStates, heap, turn, po, ledger >>

\* part_000 lines 90-91 and 257: getMenu returns to the request's getCachedMenu.
MNMenuReturn(outcome) ==
  /\ mn.pc = "menu"
  /\ cachedMenu' = GetMenu(build, outcome)
  /\ lastMenuFetch' = mn.now
  /\ mn' = IdleMN
  /\ res' = Respond("mn", [NoRes EXCEPT !.status = 200, !.menu = cachedMenu'])
  /\ UNCHANGED << build, now, sweepDue, conversationStates, heap, turn, po, ledger >>

\* ---------------------------------------------------- the specification

Next ==
  \/ \E t \in Turns, sid \in SessionIdInputs, mode \in Modes : TurnStart(t, sid, mode)
  \/ \E t \in Turns, outcome \in FetchOutcomes : TurnMenuReturn(t, outcome)
  \/ \E t \in Turns : OracleFail(t)
  \/ \E t \in Turns, raw \in ConvRaw : OracleReturn(t, raw)
  \/ \E t \in Turns, ok \in BOOLEAN : TTSReturn(t, ok)
  \/ \E t \in Turns : LedgerOk(t)
  \/ \E t \in Turns : LedgerFail(t)
  \/ POStart
  \/ \E outcome \in FetchOutcomes : POMenuReturn(outcome)
  \/ POWaitTimeReturn
  \/ POOracleFail
  \/ \E raw \in PORaw : POOracleReturn(raw)
  \/ POLedgerOk
  \/ POLedgerFail
  \/ MNStart
  \/ \E outcome \in FetchOutcomes : MNMenuReturn(outcome)

\* The requests of every kind, at one instant: the clock stands still.
Spec == Init /\ [][Next]_vars

\* The conversation endpoint as time passes: one request slot in text mode,
\* an oracle that answers well-formed objects, the clock and the sweep.
TimedRaw == {Clean(r) : r \in {x \in Replies : x.currentItem \in {Null, ItemLatteLarge}}}
TimedOutcomes == {SheetA, FetchFailed}
NextTimed ==
  \/ \E sid \in SessionIdInputs : TurnStart("t1", sid, "text")
  \/ \E outcome \in TimedOutcomes : TurnMenuReturn("t1", outcome)
  \/ OracleFail("t1")
  \/ \E raw \in TimedRaw : OracleReturn("t1", raw)
  \/ LedgerOk("t1")
  \/ LedgerFail("t1")
  \/ Sweep
  \/ Tick

\* The conversation endpoint exists in server.js only.
InitTimed == Init /\ build = "server"

SpecTimed == InitTimed /\ [][NextTimed]_vars

\* ------------------------------------------------------------ the claims

UserEntry == [role |-> "user", content |-> UserMessage]
AssistantEntry(complete) == [role |-> "assistant", content |-> ReplyText(complete)]
IsPrefix(a, b) == Len(a) <= Len(b) /\ SubSeq(b, 1, Len(a)) = a
\* A line item without its price.
Attrs(li) == [a \in DOMAIN li \ {"price"} |-> li[a]]
\* The step sends a 500 on the turn's request.
Fails(t) == res'.slot = t /\ res'.status = 500
\* The session registered under an id.
Session(sid) == heap[conversationStates[sid]]

\* C1: a conversation turn that ends in a failure response (the oracle call
\* fails, its output cannot be parsed, the price lookup throws, the ledger
\* append fails) leaves the session's completed items, pending item and
\* history exactly as they were before the turn started.
C1_FailedTurnLeavesSessionUnchanged ==
  [][\A t \in Turns :
       (Fails(t) /\ conversationStates'[turn[t].sessionId] = turn[t].state)
         => View(heap'[turn[t].state]) = turn[t].before]_vars

\* C2: every row appended to the ledger, by either path, has at least one
\* line item and a total greater than zero.
C2_EveryRowHasItemsAndPositiveTotal ==
  \A i \in 1 .. Len(ledger) :
    /\ ledger[i].items # Undefined
    /\ Len(ledger[i].items) >= 1
    /\ ledger[i].total # Null
    /\ ledger[i].total.val > 0

\* C3: an order with no line item never reaches the ledger: no append is
\* issued for an empty completed list or for missing or empty parsed items,
\* whatever the oracle says of completion or total.
C3_NoEmptyOrderReachesLedger ==
  /\ \A i \in 1 .. Len(ledger) :
       ledger[i].items # Undefined /\ Len(ledger[i].items) >= 1
  /\ \A t \in Turns :
       turn[t].pc = "ledger" =>
         /\ Len(turn[t].row.items) >= 1
         /\ Len(heap[turn[t].state].orderItems) >= 1
  /\ po.pc = "ledger" =>
       po.orderData.items # Undefined /\ Len(po.orderData.items) >= 1

\* A turn whose oracle signalled completion has answered with a normal
\* reply, and nothing was appended: the completed list was empty.
C3_Witness ==
  /\ res.slot \in Turns
  /\ res.status = 200
  /\ res.reply = ReplyText(TRUE)
  /\ ~res.orderComplete
  /\ ledger = <<>>
  /\ \A t \in Turns : turn[t].pc = "idle"
  /\ po.pc = "idle"

C5_FinalizedSessionGoneForGood ==
  [][\A t \in Turns :
       (turn[t].pc = "ledger" /\ ledger' = Append(ledger, turn[t].row))
         => /\ conversationStates'[turn[t].sessionId] = NoObj
            /\ \A i \in 1 .. Len(ledger) : ledger[i].state # turn[t].row.state]_vars

\* The idle time of the session registered under an id exceeds the threshold.
Idle(sid) ==
  /\ conversationStates[sid] # NoObj
  /\ now - Session(sid).lastActivity > TIMEOUT
\* The step takes a request into turn slot t.
Arrives(t) == turn[t].pc = "idle" /\ turn'[t].pc # "idle"

\* C6, as stated: a turn that arrives for a session whose idle time exceeds
\* the threshold, at whatever moment relative to the sweep, starts from a
\* fresh empty session.
C6_TurnAfterThresholdStartsFresh ==
  [][\A t \in Turns :
       (Arrives(t) /\ Idle(turn'[t].sessionId))
         => /\ turn'[t].before = View(NoState)
            /\ turn'[t].state # conversationStates[turn'[t].sessionId]]_vars

\* C6, amended: each run of the sweep removes the sessions whose idle time
\* exceeds the threshold; a turn for an id that is not in the store starts
\* from a fresh empty session; a turn for an id that is still in the store,
\* whatever its idle time, gets the old session and resets its idle time.
C6_SweepRemovesIdleSessions ==
  [][/\ (sweepDue /\ ~sweepDue')
          => \A s \in SessionIds : Idle(s) => conversationStates'[s] = NoObj
     /\ \A t \in Turns :
          Arrives(t) =>
            LET sid == turn'[t].sessionId
                o == turn'[t].state
            IN /\ conversationStates'[sid] = o
               /\ heap'[o].lastActivity = now
               /\ IF conversationStates[sid] = NoObj
                    THEN /\ turn'[t].before = View(NoState)
                         /\ heap'[o].orderItems = <<>>
                         /\ heap'[o].currentItem = Null
                    ELSE /\ o = conversationStates[sid]
                         /\ turn'[t].before = View(Session(sid))
                         /\ heap'[o].orderItems = Session(sid).orderItems
                         /\ heap'[o].currentItem = Session(sid).currentItem]_vars

\* The menu was fetched by a turn at time 0, which created a session; no
\* order was saved, so only the sweep can have removed that session; and a
\* turn that arrived after the threshold has found no session and works on a
\* fresh one.
C6_Witness ==
  /\ ledger = <<>>
  /\ cachedMenu # Null
  /\ lastMenuFetch = 0
  /\ \E t \in Turns :
       /\ turn[t].pc = "oracle"
       /\ turn[t].before = View(NoState)
       /\ heap[turn[t].state].lastActivity > TIMEOUT
       /\ heap[turn[t].state].conversationHistory = << UserEntry >>

\* The two entries two overlapping turns push first, and any two replies.
Overlapped(hist) ==
  /\ Len(hist) = 4
  /\ SubSeq(hist, 1, 2) = << UserEntry, UserEntry >>
  /\ hist[3].role = "assistant"
  /\ hist[4].role = "assistant"

C8_ReplyAndHistoryInOneStep ==
  [][\A t \in Turns :
       (/\ turn[t].pc = "oracle"
        /\ turn'[t].pc # "oracle"
        /\ ~Fails(t)
        /\ turn[t].state \in Referenced(conversationStates', turn'))
         => LET before == heap[turn[t].state].conversationHistory
                after == heap'[turn[t].state].conversationHistory
            IN /\ Len(after) = Len(before) + 1
               /\ IsPrefix(before, after)
               /\ after[Len(after)].role = "assistant"]_vars

\* C9, as stated: an oracle answer that is a JSON object with text before
\* and after it is salvaged in a conversation turn: whatever the turn does
\* on that answer it does on the object alone.
C9_NoisyAnswerIsSalvaged ==
  [][\A t \in Turns :
       \A r \in {x \in Replies : Noisy(x) \in ConvRaw} :
         (turn[t].pc = "oracle" /\ OracleReturn(t, Noisy(r)))
           => OracleReturn(t, Clean(r))]_vars

\* C10, as stated: the menu getCachedMenu returns to a caller is never
\* empty, whatever the menu source did.
C10_ReturnedMenuNeverEmpty ==
  /\ \A t \in Turns : turn[t].menu # Null => DOMAIN turn[t].menu # {}
  /\ po.menu # Null => DOMAIN po.menu # {}
  /\ res.menu # Null => DOMAIN res.menu # {}

\* The requests whose getCachedMenu awaits getMenu: the fetches in flight.
FetchingSlots ==
  {t \in Turns : turn[t].pc = "menu"}
    \cup (IF po.pc = "menu" THEN {"po"} ELSE {})
    \cup (IF mn.pc = "menu" THEN {"mn"} ELSE {})

\* C11, as stated: the calls of getCachedMenu that fall in one TTL window
\* cause at most one fetch: a call starts a fetch only when the snapshot is
\* missing or older than the TTL and no fetch of this window is under way.
C11_AtMostOneFetchPerWindow ==
  [][(FetchingSlots' \ FetchingSlots # {})
       => NeedsFetch(now) /\ FetchingSlots = {}]_vars

\* The step is the turn's answer to oracle reply r, and the session object
\* is still referred to after it.
Answers(t, r) ==
  /\ turn[t].pc = "oracle"
  /\ OracleReturn(t, Clean(r))
  /\ turn[t].state \in Referenced(conversationStates', turn')

\* C12, as stated: when the reply's action is add_item and the session has a
\* pending item (the reply's, if it carries one), the turn appends exactly
\* one line item, the pending item with the price the menu gives for its
\* name and size (0 if unresolved), and clears the pending item; otherwise
\* the completed list is unchanged.
C12_AddItemAppendsOneLineItem ==
  [][\A t \in Turns, r \in Replies :
       Answers(t, r) =>
         LET o == turn[t].state
             pending == PendingAfter(heap, o, r)
         IN IF r.action = "add_item" /\ pending # Null
              THEN /\ ~Fails(t)
                   /\ heap'[o].orderItems =
                        Append(heap[o].orderItems,
                               LineItem(pending, Price(turn[t].menu, pending)))
                   /\ heap'[o].currentItem = Null
              ELSE heap'[o].orderItems = heap[o].orderItems]_vars

\* ------------------------------------------------- the price lookup alone

\* The pending items the price lookup is tried on: a sized entry with a
\* size it has, without a size, with a size it lacks; a flat entry without
\* and with a size; a name the menu lacks; names and sizes that only the
\* prototype chain knows.
PriceItems ==
  {ItemLatteLarge, [item |-> "Latte"], [item |-> "Latte", size |-> "huge"],
   [item |-> "Croissant"], [item |-> "Croissant", size |-> "Large"], ItemScone,
   [item |-> "constructor", size |-> "name"], [item |-> "Latte", size |-> "constructor"]}
\* The menus getMenu builds in server.js.
PriceMenus == {GetMenu("server", outcome) : outcome \in FetchOutcomes}
\* The replies that go with them.
PriceReplies ==
  {[reply |-> ReplyText(FALSE), orderComplete |-> FALSE, currentItem |-> ci,
    action |-> a] : ci \in PriceItems \cup {Null}, a \in ReplyActions}

\* A text turn of session s1 awaits the oracle, holding menu m; the session
\* has pending item ci.
InitPrice ==
  /\ build = "server"
  /\ now = 0
  /\ sweepDue = FALSE
  /\ cachedMenu \in PriceMenus
  /\ lastMenuFetch = 0
  /\ conversationStates = [s \in SessionIds |-> 1]
  /\ \E ci \in PriceItems \cup {Null} :
       /\ heap = [o \in ObjIds |->
                    IF o = 1
                      THEN [NewState(0) EXCEPT !.currentItem = ci,
                                               !.conversationHistory = << UserEntry >>]
                      ELSE NoState]
       /\ turn = [t \in Turns |->
                    IF t = "t1"
                      THEN [IdleTurn EXCEPT !.pc = "oracle", !.sessionId = "s1",
                                            !.state = 1, !.menu = cachedMenu,
                                            !.before = View([NewState(0) EXCEPT
                                                               !.currentItem = ci])]
                      ELSE IdleTurn]
  /\ po = IdlePO
  /\ mn = IdleMN
  /\ res = NoRes
  /\ ledger = <<>>

\* The oracle answers; the session's next turn arrives.
NextPrice ==
  \/ \E t \in Turns, r \in PriceReplies : OracleReturn(t, Clean(r))
  \/ \E sid \in SessionIds : TurnStart("t1", sid, "text")

SpecPrice == InitPrice /\ [][NextPrice]_vars

\* C13, as stated: the price of a line item is the price of its menu entry
\* when the entry is flat, whatever the size; the price under the matching
\* size key when the entry is sized; and 0, without the turn failing, when
\* the entry is sized and the size is unknown or absent, or when the menu
\* has no entry of that name.
C13_PriceResolution ==
  [][\A t \in Turns, r \in PriceReplies :
       LET o == turn[t].state
           pending == PendingAfter(heap, o, r)
       IN (Answers(t, r) /\ r.action = "add_item" /\ pending # Null)
            => LET m == turn[t].menu
                   name == ToLowerCase(pending.item)
                   size == IF "size" \in DOMAIN pending
                             THEN ToLowerCase(pending.size) ELSE ""
                   after == heap'[o].orderItems
               IN /\ ~Fails(t)
                  /\ Len(after) = Len(heap[o].orderItems) + 1
                  /\ after[Len(after)].price =
                       (IF name \notin DOMAIN m THEN 0
                        ELSE IF m[name].kind = "number" THEN m[name].price
                        ELSE IF size \in DOMAIN m[name].sizes THEN m[name].sizes[size]
                        ELSE 0)]_vars

\* C14, as stated: the total written to a ledger row by the conversation
\* path is the sum of the prices of the line items of that row, and the
\* total of a finalization response is the sum of the prices of the items of
\* that response, also when another turn of the session ran while the
\* ledger append was pending.
C14_TotalIsSumOfLineItems ==
  /\ \A i \in 1 .. Len(ledger) :
       ledger[i].state # NoObj => ledger[i].total = Num(Total(ledger[i].items))
  /\ (res.slot \in Turns /\ res.orderComplete)
       => res.total = Num(Total(res.items))

\* C15: a voice turn whose speech synthesis fails completes as a text turn
\* does.  What the reply does to the completed list and the pending item is
\* the same in both modes; the step that ends the synthesis never fails the
\* turn: it leaves the items as they are, appends the assistant's reply to
\* the history, and either goes on to save the order (completion signalled,
\* list not empty) or sends the normal reply, without audio when the
\* synthesis failed.
C15_SpeechFailureDoesNotFailTheTurn ==
  [][\A t \in Turns :
       LET o == turn[t].state
           ai == turn[t].aiResponse
       IN /\ \A r \in Replies :
               (Answers(t, r) /\ ~Fails(t))
                 => LET pending == PendingAfter(heap, o, r)
                        adds == r.action = "add_item" /\ pending # Null
                    IN /\ heap'[o].currentItem = (IF adds THEN Null ELSE pending)
                       /\ Len(heap'[o].orderItems) =
                            Len(heap[o].orderItems) + (IF adds THEN 1 ELSE 0)
                       /\ turn[t].mode = "voice" <=> turn'[t].pc = "tts"
          /\ (turn[t].pc = "tts" /\ turn'[t].pc # "tts")
               => /\ ~Fails(t)
                  /\ o \in Referenced(conversationStates', turn')
                       => /\ heap'[o].orderItems = heap[o].orderItems
                          /\ heap'[o].currentItem = heap[o].currentItem
                          /\ heap'[o].conversationHistory =
                               Append(heap[o].conversationHistory,
                                      [role |-> "assistant", content |-> ai.reply])
                  /\ IF ai.orderComplete /\ Len(heap[o].orderItems) > 0
                       THEN /\ turn'[t].pc = "ledger"
                            /\ turn'[t].row.items = heap[o].orderItems
                            /\ TTSReturn(t, FALSE) => turn'[t].audioBuffer = Null
                       ELSE /\ turn'[t].pc = "idle"
                            /\ res'.slot = t
                            /\ res'.status = 200
                            /\ res'.reply = ai.reply
                            /\ ~res'.orderComplete
                            /\ TTSReturn(t, FALSE) => res'.audio = Null]_vars

\* A voice turn whose synthesis failed (it holds no audio) has appended the
\* assistant's reply and its line item and awaits the ledger.
C15_Witness ==
  \E t \in Turns :
    /\ turn[t].pc = "ledger"
    /\ turn[t].mode = "voice"
    /\ turn[t].audioBuffer = Null
    /\ Len(turn[t].row.items) = 1
    /\ heap[turn[t].state].conversationHistory = << UserEntry, AssistantEntry(TRUE) >>

\* C16: a conversation-turn request without a sessionId is answered 400
\* before anything else happens: the step that takes it creates and touches
\* no session, starts no menu fetch, calls no oracle and writes nothing to
\* the ledger; and a 400 is sent by no other step.
C16_MissingSessionIdRejected ==
  [][\A t \in Turns :
       /\ \A mode \in Modes :
            (turn[t].pc = "idle" /\ TurnStart(t, "", mode))
              => /\ res'.slot = t
                 /\ res'.status = 400
                 /\ UNCHANGED << conversationStates, heap, turn, cachedMenu,
                                 lastMenuFetch, po, mn, ledger >>
       /\ (res'.slot = t /\ res'.status = 400)
            => /\ turn[t].pc = "idle"
               /\ UNCHANGED << conversationStates, heap, turn, cachedMenu,
                               lastMenuFetch, po, mn, ledger >>]_vars

\* A request without a sessionId has been answered 400 on a server that had
\* served nothing yet: there is still no session, no menu and no order.
C16_Witness ==
  /\ res.slot \in Turns
  /\ res.status = 400
  /\ \A s \in SessionIds : conversationStates[s] = NoObj
  /\ \A t \in Turns : turn[t] = IdleTurn
  /\ cachedMenu = Null
  /\ FetchingSlots = {}
  /\ ledger = <<>>

\* C17: a run of the sweep removes the sessions whose idle time (the time
\* of the sweep minus the last activity) is strictly greater than the
\* threshold, and no other: a session touched within the threshold stays,
\* and the sweep changes neither a session it leaves nor a request in
\* flight.
C17_SweepRemovesExactlyIdleSessions ==
  [][(sweepDue /\ ~sweepDue')
       => /\ \A s \in SessionIds :
               IF Idle(s)
                 THEN conversationStates'[s] = NoObj
                 ELSE /\ conversationStates'[s] = conversationStates[s]
                      /\ conversationStates[s] # NoObj
                           => heap'[conversationStates[s]] = Session(s)
          /\ UNCHANGED << turn, now, cachedMenu, lastMenuFetch, ledger >>]_vars

\* The sweep has run at the moment a session's idle time equals the
\* threshold, and the session is still there.
C17_Witness ==
  /\ ~sweepDue
  /\ \E s \in SessionIds :
       /\ conversationStates[s] # NoObj
       /\ now - Session(s).lastActivity = TIMEOUT
       /\ Session(s).conversationHistory # <<>>
  /\ \A t \in Turns : turn[t].pc = "idle"

\* C18: the completed list of a session object is append-only as long as
\* the object is in use: over every step the list before is a prefix of the
\* list after (no line item is removed, moved or changed, whatever the later
\* replies and menus are) and at most one line item is added; the list
\* grows only in the step in which one turn of that session receives its
\* reply; and the list a turn found is a prefix of the list it leaves.
C18_CompletedListIsAppendOnly ==
  [][\A o \in ObjIds :
       (/\ o \in Referenced(conversationStates, turn)
        /\ o \in Referenced(conversationStates', turn'))
         => /\ IsPrefix(heap[o].orderItems, heap'[o].orderItems)
            /\ Len(heap'[o].orderItems) <= Len(heap[o].orderItems) + 1
            /\ heap'[o].orderItems # heap[o].orderItems
                 => \E t \in Turns : /\ turn[t].state = o
                                     /\ turn[t].pc = "oracle"
                                     /\ turn'[t].pc # "oracle"
            /\ \A t \in Turns :
                 turn[t].state = o
                   => IsPrefix(turn[t].before.orderItems, heap'[o].orderItems)]_vars

\* A session holds two different line items, the first with the price of the
\* menu, after two turns with different pending items.
C18_Witness ==
  \E s \in SessionIds :
    /\ conversationStates[s] # NoObj
    /\ Len(Session(s).orderItems) = 2
    /\ Attrs(Session(s).orderItems[1]) = ItemLatteLarge
    /\ Session(s).orderItems[1].price > 0
    /\ Attrs(Session(s).orderItems[2]) = ItemScone

\* C19: the update of the pending item is a full replace or nothing.  When
\* the reply carries a pending item, the session's pending item becomes
\* exactly that item, with no attribute of the previous one (and when the
\* reply also adds it, it is exactly that item that becomes the line item,
\* the pending item being cleared); when the reply carries none and its
\* action is not add_item, the pending item is left as it was.
C19_PendingItemReplacedOrKept ==
  [][\A t \in Turns, r \in Replies :
       Answers(t, r) =>
         LET o == turn[t].state
             old == heap[o].currentItem
             new == r.currentItem
             after == heap'[o].orderItems
         IN IF new # Null
              THEN IF r.action = "add_item" /\ ~Fails(t)
                     THEN /\ heap'[o].currentItem = Null
                          /\ Len(after) = Len(heap[o].orderItems) + 1
                          /\ Attrs(after[Len(after)]) = new
                     ELSE heap'[o].currentItem = new
              ELSE r.action # "add_item" => heap'[o].currentItem = old]_vars

\* A voice turn found the session with a large latte pending; the reply
\* carried a hot scone; the pending item is the scone alone.
C19_Witness ==
  \E t \in Turns :
    /\ turn[t].pc = "tts"
    /\ turn[t].before.currentItem = ItemLatteLarge
    /\ turn[t].aiResponse.currentItem = ItemScone
    /\ turn[t].aiResponse.action # "add_item"
    /\ heap[turn[t].state].currentItem = ItemScone

\* C20, as stated: no line item is persisted twice.  A row holds the first
\* line items of the list of the session object it was written from, so a
\* line item is in two rows when two rows of one object both reach its
\* position in the list.
C20_NoLineItemPersistedTwice ==
  \A i, j \in 1 .. Len(ledger) :
    (i < j /\ ledger[i].state # NoObj /\ ledger[i].state = ledger[j].state)
      => \A k \in 1 .. Len(ledger[i].items) : k > Len(ledger[j].items)

\* The step is one in which turn t pushes an entry to the history of its
\* session object: the user's message when the menu arrives, the assistant's
\* reply when the oracle's reply arrives (text mode) or when the speech
\* synthesis ends (voice mode).
PushesEntry(t) ==
  /\ turn[t].pc \in {"menu", "oracle", "tts"}
  /\ turn'[t].pc # turn[t].pc
  /\ ~Fails(t)
  /\ turn[t].pc = "oracle" => turn'[t].pc # "tts"

\* C21, as stated: whenever a turn writes to a session object, that object
\* is the one registered in the store under the turn's session id: no turn
\* writes to an object that a finalization or the sweep has removed.
C21_TurnWritesRegisteredState ==
  [][\A t \in Turns :
       PushesEntry(t) => conversationStates[turn[t].sessionId] = turn[t].state]_vars

\* ------------------------------------------------ the menu cache in time

\* The callers of getCachedMenu of part_000 (the single-turn endpoint and
\* the menu endpoint) as time passes; its TTL is one unit of the clock.
InitMenu == Init /\ build = "part_000"

NextMenu ==
  \/ POStart
  \/ \E outcome \in FetchOutcomes : POMenuReturn(outcome)
  \/ POWaitTimeReturn
  \/ POOracleFail
  \/ \E raw \in PORaw : POOracleReturn(raw)
  \/ POLedgerOk
  \/ POLedgerFail
  \/ MNStart
  \/ \E outcome \in FetchOutcomes : MNMenuReturn(outcome)
  \/ Tick

SpecMenu == InitMenu /\ [][NextMenu]_vars

\* C22, as stated: a failed fetch is cached like a successful one.  The
\* snapshot of the catch block is stored with the time of the call; while it
\* is cached and no older than the TTL, no call contacts the menu source;
\* and when it is older, the source is contacted by the first call alone:
\* a call starts a fetch only when no fetch is under way.
C22_FailedFetchCachedForWindow ==
  [][/\ (mn.pc = "menu" /\ MNMenuReturn(FetchFailed))
          => cachedMenu' = CatchMenu(build) /\ lastMenuFetch' = mn.now
     /\ (po.pc = "menu" /\ POMenuReturn(FetchFailed))
          => cachedMenu' = CatchMenu(build) /\ lastMenuFetch' = po.now
     /\ (cachedMenu = CatchMenu(build)
           /\ now - lastMenuFetch <= MENU_CACHE_DURATION(build))
          => FetchingSlots' \subseteq FetchingSlots
     /\ (cachedMenu = CatchMenu(build) /\ FetchingSlots' \ FetchingSlots # {})
          => FetchingSlots = {}]_vars

====
